---- MODULE Spec2Model ----
(***************************************************************************)
(* Model of src/civitai_model_manager/components/details.py: one           *)
(* invocation of get_model_details_cli, from the identifier string to the  *)
(* messages and tables written to the terminal.                            *)
(*                                                                         *)
(* Python values are represented as follows.  A scalar is a tagged record  *)
(* (None, PyInt(n), PyStr(s)); a dict is a function whose domain is its    *)
(* set of keys; a list is a sequence.  A str that the code indexes or      *)
(* parses character by character (the identifier) is a sequence of         *)
(* one-character strings.                                                  *)
(***************************************************************************)
EXTENDS Integers, Sequences, FiniteSets, TLC

VARIABLES
    identifier,     \* get_model_details_cli's argument, a string
    desc,           \* get_model_details_cli's flag
    images,         \* get_model_details_cli's flag
    pc,             \* position of the invocation
    model_id,       \* int(identifier), once parsed
    version_data,   \* fetch_version_data's local
    model_data,     \* get_model_details's local: what process_model_data gets
    model_details,  \* get_model_details_cli's local: the normalized record
    requests,       \* every requests.get issued, with the status it met and
                    \* what make_request returned for it
    out,            \* what was written to the terminal, in order
    raised          \* the exception that left get_model_details_cli, if any

vars == <<identifier, desc, images, pc, model_id, version_data, model_data,
          model_details, requests, out, raised>>

------------------------------------------------------------------------------
(* Python values *)

None == [t |-> "none"]
PyInt(n) == [t |-> "int", n |-> n]
PyStr(s) == [t |-> "str", s |-> s]
EmptyDict == [k \in {} |-> None]

\* bool(x) of a scalar
TruthyScalar(x) ==
    /\ x # None
    /\ x # PyInt(0)
    /\ x # PyStr("")

\* bool(x) of an Optional[Dict]
Truthy(x) ==
    /\ x # None
    /\ DOMAIN x # {}

\* bool(x) of a list
TruthyList(x) == Len(x) > 0

\* dict.get(key, default)
Get(d, key, default) == IF key \in DOMAIN d THEN d[key] ELSE default

\* {**a, **b}
DictMergeVersionWins(a, b) == a @@ b
DictMerge(a, b) == b @@ a

------------------------------------------------------------------------------
(* int(identifier), details.py line 172 *)

Digits == {"0", "1", "2", "3", "4", "5", "6", "7", "8", "9"}
Whitespace == {" "}

DigitValue(c) ==
    CASE c = "0" -> 0 [] c = "1" -> 1 [] c = "2" -> 2 [] c = "3" -> 3
      [] c = "4" -> 4 [] c = "5" -> 5 [] c = "6" -> 6 [] c = "7" -> 7
      [] c = "8" -> 8 [] c = "9" -> 9

RECURSIVE LStrip(_)
LStrip(s) ==
    IF s # <<>> /\ Head(s) \in Whitespace THEN LStrip(Tail(s)) ELSE s

RECURSIVE RStrip(_)
RStrip(s) ==
    IF s # <<>> /\ s[Len(s)] \in Whitespace
    THEN RStrip(SubSeq(s, 1, Len(s) - 1))
    ELSE s

RECURSIVE DigitsValue(_, _)
DigitsValue(s, acc) ==
    IF s = <<>> THEN acc
    ELSE DigitsValue(Tail(s), acc * 10 + DigitValue(Head(s)))

\* A variant of int_py that skips the characters it cannot read instead of
\* raising ValueError.
RECURSIVE OnlyDigits(_)
OnlyDigits(s) ==
    IF s = <<>> THEN <<>>
    ELSE IF Head(s) \in Digits THEN <<Head(s)>> \o OnlyDigits(Tail(s))
    ELSE OnlyDigits(Tail(s))

int_py_lenient(s) ==
    LET body == OnlyDigits(s)
    IN  IF body = <<>>
        THEN [ok |-> FALSE, value |-> 0]
        ELSE [ok |-> TRUE, value |-> DigitsValue(body, 0)]

\* int(s) for a str s: surrounding whitespace is stripped, one leading sign
\* is read, and what is left must be one or more decimal digits; ok = FALSE
\* stands for ValueError.  (Underscore digit separators are not in the
\* alphabet of the identifiers below.)
int_py(s) ==
    LET stripped == RStrip(LStrip(s))
        signed == stripped # <<>> /\ Head(stripped) \in {"-", "+"}
        body == IF signed THEN Tail(stripped) ELSE stripped
        sign == IF signed /\ Head(stripped) = "-" THEN -1 ELSE 1
    IN  IF body = <<>> \/ \E i \in 1..Len(body) : body[i] \notin Digits
        THEN [ok |-> FALSE, value |-> 0]
        ELSE [ok |-> TRUE, value |-> sign * DigitsValue(body, 0)]

------------------------------------------------------------------------------
(* utils.py helpers that details.py imports (line 22) *)

Key(k) == [key |-> k]
Idx(i) == [idx |-> i]

\* safe_get(collection, keys, default): nested lookup through dict keys and
\* list indexes that yields the default as soon as a step is absent.
RECURSIVE safe_get(_, _, _)
safe_get(collection, keys, default) ==
    IF keys = <<>> THEN collection
    ELSE LET k == Head(keys)
         IN  IF "key" \in DOMAIN k
             THEN IF k.key \in DOMAIN collection
                  THEN safe_get(collection[k.key], Tail(keys), default)
                  ELSE default
             ELSE IF k.idx + 1 <= Len(collection)
                  THEN safe_get(collection[k.idx + 1], Tail(keys), default)
                  ELSE default

KBPerMB == 1024

\* convert_kb(kb): a size in kilobytes as a human-readable string; a missing
\* size (the "" default) gives an empty string.
convert_kb(kb) ==
    IF kb = PyStr("") THEN PyStr("")
    ELSE IF kb.n < KBPerMB THEN [t |-> "size", n |-> kb.n, unit |-> "KB"]
    ELSE [t |-> "size", n |-> kb.n \div KBPerMB, unit |-> "MB"]

------------------------------------------------------------------------------
(* process_model_data and get_metadata, details.py lines 73-113 *)

\* list[0]: defined on a non-empty list only (IndexError otherwise)
First(list) == list[1]

\* One element of the versions comprehension, lines 76-83.
VersionSummary(v) ==
    [id |-> Get(v, "id", PyStr("")),
     name |-> Get(v, "name", PyStr("")),
     base_model |-> Get(v, "baseModel", PyStr("")),
     download_url |-> Get(First(Get(v, "files", <<EmptyDict>>)),
                          "downloadUrl", PyStr("")),
     images |-> Get(First(Get(v, "images", <<EmptyDict>>)), "url", PyStr("")),
     file |-> Get(First(Get(v, "files", <<EmptyDict>>)), "name", PyStr(""))]

\* v.get("files", [{}])[0] and v.get("images", [{}])[0] raise IndexError
\* when the list is present and empty (lines 80-82).
SummaryRaises(v) ==
    \/ ~TruthyList(Get(v, "files", <<EmptyDict>>))
    \/ ~TruthyList(Get(v, "images", <<EmptyDict>>))

\* Whether process_model_data(data) raises IndexError: only the versions
\* comprehension indexes a list directly, and only for a model shape.
process_model_data_raises(data) ==
    /\ "model" \notin DOMAIN data
    /\ LET mv == Get(data, "modelVersions", <<>>)
       IN  \E i \in 1..Len(mv) : SummaryRaises(mv[i])

get_metadata(data, is_version) ==
    LET stats_path == IF ~is_version THEN <<Key("stats")>>
                      ELSE <<Key("model"), Key("stats")>>
        files_path == IF ~is_version
                      THEN <<Key("modelVersions"), Idx(0), Key("files"), Idx(0)>>
                      ELSE <<Key("files"), Idx(0)>>
    IN  [stats |->
            [downloads |-> safe_get(data, stats_path \o <<Key("downloadCount")>>, PyStr("")),
             likes |-> safe_get(data, stats_path \o <<Key("thumbsUpCount")>>, PyStr("")),
             dislikes |-> safe_get(data, stats_path \o <<Key("thumbsDownCount")>>, PyStr(""))],
         size |-> convert_kb(safe_get(data, files_path \o <<Key("sizeKB")>>, PyStr(""))),
         format |-> safe_get(data, files_path \o <<Key("metadata"), Key("format")>>,
                             PyStr(".safetensors")),
         file |-> safe_get(data, files_path \o <<Key("name")>>, PyStr(""))]

\* The versions comprehension of lines 76-83.
Versions(data, is_version) ==
    IF ~is_version
    THEN LET mv == Get(data, "modelVersions", <<>>)
         IN  [i \in 1..Len(mv) |-> VersionSummary(mv[i])]
    ELSE <<>>

\* A variant of ParentId that looks the parent's id up in the nested
\* `model` object, where parent_name comes from.
ParentIdNested(data, is_version) ==
    IF is_version THEN safe_get(data, <<Key("model"), Key("id")>>, None) ELSE None

\* parent_id, line 87
ParentId(data, is_version) ==
    IF is_version THEN Get(data, "modelId", None) ELSE None

\* process_model_data(data), for data on which it does not raise.
process_model_data(data) ==
    LET is_version == "model" \in DOMAIN data
    IN  [id |-> Get(data, "id", PyStr("")),
         parent_id |-> ParentId(data, is_version),
         parent_name |-> IF is_version
                         THEN safe_get(data, <<Key("model"), Key("name")>>, None)
                         ELSE None,
         name |-> Get(data, "name", PyStr("")),
         description |-> Get(data, "description", PyStr("")),
         type |-> safe_get(data, IF is_version THEN <<Key("model"), Key("type")>>
                                 ELSE <<Key("type")>>, PyStr("")),
         base_model |-> Get(data, "baseModel", PyStr("")),
         download_url |-> safe_get(data,
                            IF ~is_version
                            THEN <<Key("modelVersions"), Idx(0), Key("downloadUrl")>>
                            ELSE <<Key("downloadUrl")>>, PyStr("")),
         tags |-> Get(data, "tags", <<>>),
         creator |-> safe_get(data, <<Key("creator"), Key("username")>>, PyStr("")),
         trainedWords |-> safe_get(data,
                            IF ~is_version
                            THEN <<Key("modelVersions"), Idx(0), Key("trainedWords")>>
                            ELSE <<Key("trainedWords")>>, PyStr("None")),
         nsfw |-> IF Get(data, "nsfw", FALSE) THEN PyStr("Yes") ELSE PyStr("No"),
         metadata |-> get_metadata(data, is_version),
         versions |-> Versions(data, is_version),
         images |-> safe_get(data,
                            IF ~is_version
                            THEN <<Key("modelVersions"), Idx(0), Key("images")>>
                            ELSE <<Key("images")>>, <<>>)]

------------------------------------------------------------------------------
(* print_model_details, details.py lines 116-166 *)

Table(what, rows) == [kind |-> "table", what |-> what, rows |-> rows]
Feedback(kind, what) == [kind |-> kind, what |-> what, rows |-> 0]

When(cond, event) == IF cond THEN <<event>> ELSE <<>>

\* A variant of NoVersionsWarning that looks at the versions only.
NoVersionsWarningAnyParent(details) ==
    When(~TruthyList(details.versions),
         Feedback("warning", "no_versions"))

\* lines 165-166
NoVersionsWarning(details) ==
    When(~TruthyList(details.versions) /\ ~TruthyScalar(details.parent_id),
         Feedback("warning", "no_versions"))

\* A variant of VariantWarning that tests parent_id against None.
VariantWarningNotNone(details) ==
    When(details.parent_id # None, Feedback("warning", "variant"))

\* lines 159-160
VariantWarning(details) ==
    When(TruthyScalar(details.parent_id), Feedback("warning", "variant"))

\* lines 162-163
NoImagesWarning(details) ==
    When(~TruthyList(details.images), Feedback("warning", "no_images"))

\* What print_model_details writes, in order.
print_model_details(details, show_desc, show_images) ==
    <<Table("attributes", 7)>>
    \o When(show_desc, Table("description", 1))
    \o When(TruthyList(details.versions),
            Table("versions", Len(details.versions)))
    \o When(show_images /\ TruthyList(details.images),
            Table("images", Len(details.images)))
    \o VariantWarning(details)
    \o NoImagesWarning(details)
    \o NoVersionsWarning(details)

------------------------------------------------------------------------------
(* What the two endpoints can answer *)

MaxVersions == 2

File1 ==
    ("name" :> PyStr("a.safetensors")) @@ ("downloadUrl" :> PyStr("dl/a"))
    @@ ("sizeKB" :> PyInt(2048)) @@ ("metadata" :> ("format" :> PyStr("SafeTensor")))
File2 ==
    ("name" :> PyStr("b.ckpt")) @@ ("downloadUrl" :> PyStr("dl/b"))
    @@ ("sizeKB" :> PyInt(512))
Image1 == ("url" :> PyStr("img/1")) @@ ("nsfwLevel" :> PyInt(1))
Image2 == ("url" :> PyStr("img/2")) @@ ("nsfwLevel" :> PyInt(4))

\* Entries of a modelVersions list: without files and images, with several
\* of each, and with an empty list of either.
EntryBare == ("id" :> PyInt(101))
EntryFull ==
    ("id" :> PyInt(102)) @@ ("name" :> PyStr("v2")) @@ ("baseModel" :> PyStr("SDXL"))
    @@ ("downloadUrl" :> PyStr("dl/v2")) @@ ("trainedWords" :> <<PyStr("w")>>)
    @@ ("files" :> <<File1, File2>>) @@ ("images" :> <<Image1, Image2>>)
EntryNoFiles ==
    ("id" :> PyInt(103)) @@ ("name" :> PyStr("v3"))
    @@ ("files" :> <<>>) @@ ("images" :> <<Image2>>)
EntryNoImages ==
    ("id" :> PyInt(104)) @@ ("name" :> PyStr("v4"))
    @@ ("files" :> <<File2>>) @@ ("images" :> <<>>)
VersionEntries == {EntryBare, EntryFull, EntryNoFiles, EntryNoImages}

VersionLists == UNION {[1..n -> VersionEntries] : n \in 0..MaxVersions}

ModelFields ==
    ("id" :> PyInt(12345)) @@ ("name" :> PyStr("m")) @@ ("type" :> PyStr("LORA"))
    @@ ("description" :> PyStr("<p>d</p>")) @@ ("tags" :> <<PyStr("t")>>)
    @@ ("creator" :> ("username" :> PyStr("u"))) @@ ("nsfw" :> TRUE)
    @@ ("stats" :> (("downloadCount" :> PyInt(3)) @@ ("thumbsUpCount" :> PyInt(2))
                    @@ ("thumbsDownCount" :> PyInt(1))))

\* Parent-model bodies: with every top-level field or with none, and with
\* any modelVersions list or without the key.
ModelShaped ==
    {base @@ ("modelVersions" :> vs) :
        base \in {EmptyDict, ModelFields}, vs \in VersionLists}
    \cup {ModelFields}

VersionFields ==
    ("id" :> PyInt(777)) @@ ("name" :> PyStr("v")) @@ ("baseModel" :> PyStr("SD1"))
    @@ ("downloadUrl" :> PyStr("dl/v")) @@ ("trainedWords" :> <<PyStr("w")>>)
ModelIdOpts == {EmptyDict, "modelId" :> PyInt(0), "modelId" :> PyInt(999)}
ModelOpts ==
    {EmptyDict, "model" :> EmptyDict,
     "model" :> (("name" :> PyStr("parent")) @@ ("type" :> PyStr("LORA")))}
AssetOpts ==
    {EmptyDict, ("images" :> <<Image1>>) @@ ("files" :> <<File1>>)}

\* Model-version bodies: modelId absent, zero or a model's id; the nested
\* model object absent, empty or filled; with or without images and files.
VersionShaped ==
    {VersionFields @@ mid @@ mod @@ assets :
        mid \in ModelIdOpts, mod \in ModelOpts, assets \in AssetOpts}

ErrorBody == "error" :> PyStr("Model not found")
OddBodies == {EmptyDict, ErrorBody}

\* A version body answered by the models endpoint.
StrayVersionBody ==
    VersionFields @@ ("modelId" :> PyInt(3)) @@ ("model" :> ("name" :> PyStr("other")))

ModelsBodies == ModelShaped \cup OddBodies \cup {StrayVersionBody}
VersionsBodies == VersionShaped \cup OddBodies

\* Bodies a 404 answer carries.
NotFoundBodies ==
    OddBodies
    \cup {ModelFields @@ ("modelVersions" :> <<EntryFull>>),
          ModelFields @@ ("modelVersions" :> <<EntryNoFiles>>)}

\* An answer to requests.get: status 0 stands for no answer at all (a
\* transport error); valid says whether the body parses as JSON, and body is
\* what it parses to.
Responses(bodies) ==
    {[status |-> st, valid |-> FALSE, body |-> EmptyDict] : st \in {0, 200, 404, 500}}
    \cup {[status |-> 200, valid |-> TRUE, body |-> b] : b \in bodies}
    \cup {[status |-> 404, valid |-> TRUE, body |-> b] : b \in NotFoundBodies}
    \cup {[status |-> 500, valid |-> TRUE, body |-> ErrorBody]}

------------------------------------------------------------------------------
(* make_request, details.py lines 57-70 *)

\* The result of make_request for an answer: the parsed body, or None with
\* the failure message when requests.get, raise_for_status or json() raised
\* a RequestException (requests' JSONDecodeError is one).
make_request(resp) ==
    IF resp.status = 0 THEN [data |-> None, failed |-> TRUE]
    ELSE IF resp.status # 404 /\ resp.status >= 400
    THEN [data |-> None, failed |-> TRUE]
    ELSE IF ~resp.valid THEN [data |-> None, failed |-> TRUE]
    ELSE [data |-> resp.body, failed |-> FALSE]

Request(endpoint, id, resp) ==
    [endpoint |-> endpoint, id |-> id, status |-> resp.status,
     data |-> make_request(resp).data]

\* A variant of requests_get that sends the request a second time.
requests_get_retry(log, request) == Append(Append(log, request), request)

\* requests.get(url), line 59: one GET request
requests_get(log, request) == Append(log, request)

FailureMessage(resp) ==
    When(make_request(resp).failed, Feedback("error", "request_failed"))

------------------------------------------------------------------------------
(* get_model_details_cli, details.py lines 169-182, with get_model_details, *)
(* fetch_model_data and fetch_version_data, lines 32-54                     *)

Chars(a, b, c, d, e) == <<a, b, c, d, e>>

Identifiers ==
    {Chars("1", "2", "3", "4", "5"), <<"-", "5">>, <<"0">>, <<"-", "0">>,
     <<"7">>, <<" ", "7">>, <<" ", "0", " ">>, <<"a", "b", "c">>, <<>>, <<"1", "2", "a">>, <<"-">>,
     <<"1", ".", "5">>}

Init ==
    /\ identifier \in Identifiers
    /\ desc \in BOOLEAN
    /\ images \in BOOLEAN
    /\ pc = "get_model_details_cli"
    /\ model_id = None
    /\ version_data = None
    /\ model_data = None
    /\ model_details = EmptyDict
    /\ requests = <<>>
    /\ out = <<>>
    /\ raised = "none"

\* Lines 41 and 175-179: normalize what was fetched and print it, or report
\* that nothing was found; an IndexError of process_model_data is caught
\* nowhere (line 181 catches ValueError only).
Return(log, data) ==
    /\ pc' = "done"
    /\ model_data' = data
    /\ IF ~Truthy(data)
       THEN /\ model_details' = EmptyDict
            /\ out' = log \o <<Feedback("error", "not_found")>>
            /\ raised' = "none"
       ELSE IF process_model_data_raises(data)
       THEN /\ model_details' = EmptyDict
            /\ out' = log
            /\ raised' = "IndexError"
       ELSE /\ model_details' = process_model_data(data)
            /\ out' = log \o print_model_details(process_model_data(data), desc, images)
            /\ raised' = "none"

\* Lines 171-173 and 181-182, and the guard of lines 33-35.
get_model_details_cli ==
    /\ pc = "get_model_details_cli"
    /\ LET parsed == int_py(identifier)
       IN  IF ~parsed.ok
           THEN /\ out' = <<Feedback("error", "invalid_id")>>
                /\ pc' = "done"
                /\ UNCHANGED model_id
           ELSE IF parsed.value = 0
           THEN /\ out' = <<Feedback("error", "provide_valid_id"),
                            Feedback("error", "not_found")>>
                /\ pc' = "done"
                /\ model_id' = PyInt(parsed.value)
           ELSE /\ out' = out
                /\ pc' = "fetch_model_data"
                /\ model_id' = PyInt(parsed.value)
    /\ UNCHANGED <<identifier, desc, images, version_data, model_data,
                   model_details, requests, raised>>

\* Lines 37-38 (fetch_model_data, lines 44-45).
fetch_model_data ==
    /\ pc = "fetch_model_data"
    /\ \E resp \in Responses(ModelsBodies) :
        LET data == make_request(resp).data
            log == out \o FailureMessage(resp)
        IN  /\ requests' = requests_get(requests, Request("models", model_id, resp))
            /\ IF Truthy(data)
               THEN Return(log, data)
               ELSE /\ pc' = "fetch_version_data"
                    /\ model_data' = data
                    /\ out' = log
                    /\ UNCHANGED <<model_details, raised>>
    /\ UNCHANGED <<identifier, desc, images, model_id, version_data>>

\* Lines 39 and 49-50: the request to the versions endpoint.
fetch_version_data ==
    /\ pc = "fetch_version_data"
    /\ \E resp \in Responses(VersionsBodies) :
        LET data == make_request(resp).data
            log == out \o FailureMessage(resp)
        IN  /\ requests' = requests_get(requests, Request("versions", model_id, resp))
            /\ version_data' = data
            /\ IF Truthy(data)
               THEN /\ pc' = "fetch_parent_model"
                    /\ out' = log
                    /\ UNCHANGED <<model_data, model_details, raised>>
               ELSE Return(log, None)
    /\ UNCHANGED <<identifier, desc, images, model_id>>

\* Lines 51-54: the request for the version's parent model, and the merge.
fetch_parent_model ==
    /\ pc = "fetch_parent_model"
    /\ \E resp \in Responses(ModelsBodies) :
        LET data == make_request(resp).data
            log == out \o FailureMessage(resp)
        IN  /\ requests' = requests_get(requests,
                    Request("models", Get(version_data, "modelId", None), resp))
            /\ IF Truthy(data)
               THEN Return(log, DictMerge(version_data, data))
               ELSE Return(log, None)
    /\ UNCHANGED <<identifier, desc, images, model_id, version_data>>

Next ==
    \/ get_model_details_cli
    \/ fetch_model_data
    \/ fetch_version_data
    \/ fetch_parent_model

Spec == Init /\ [][Next]_vars

------------------------------------------------------------------------------
(* Vocabulary of the properties *)

Done == pc = "done"

Emitted(kind, what) ==
    \E i \in 1..Len(out) : out[i].kind = kind /\ out[i].what = what

AnyTable == \E i \in 1..Len(out) : out[i].kind = "table"

AnyError == \E i \in 1..Len(out) : out[i].kind = "error"

\* The record was built and printed.
Printed == Done /\ Truthy(model_data) /\ raised = "none"

\* s is an integer literal: decimal digits after an optional sign, inside
\* optional blanks.
IsIntegerLiteral(s) ==
    \E i \in 1..Len(s), j \in 1..Len(s) :
        /\ i <= j
        /\ \A k \in 1..(i - 1) : s[k] = " "
        /\ \A k \in (j + 1)..Len(s) : s[k] = " "
        /\ \A k \in (i + 1)..j : s[k] \in Digits
        /\ \/ s[i] \in Digits
           \/ s[i] \in {"+", "-"} /\ i < j

\* s is the literal of an integer greater than zero.
IsPositiveLiteral(s) ==
    /\ IsIntegerLiteral(s)
    /\ \A k \in 1..Len(s) : s[k] # "-"
    /\ \E k \in 1..Len(s) : s[k] \in Digits \ {"0"}

\* The fallback path succeeded: three requests, the last of which, for the
\* parent of a version body that names one, gave a body.
FallbackSucceeded ==
    /\ Done
    /\ Len(requests) = 3
    /\ Truthy(requests[3].data)
    /\ "modelId" \in DOMAIN version_data

------------------------------------------------------------------------------
(* C1 *)

\* C1: get_model_details_cli never propagates an exception: whatever the
\* identifier and the answers, it ends with something printed and a normal
\* return.
C1_NeverPropagates == Done => raised = "none" /\ out # <<>>

------------------------------------------------------------------------------
(* C2 *)

\* C2 as stated: an invocation issues at most two GET requests.
C2_AtMostTwoRequests == Len(requests) <= 2

\* C2, amended: an invocation issues at most three GET requests; the third
\* one is issued only after the models lookup gave nothing and the versions
\* lookup gave a body, and a models lookup that gives a body is the only
\* request.
C2_AtMostThreeRequests ==
    /\ Len(requests) <= 3
    /\ Len(requests) >= 1 /\ Truthy(requests[1].data) => Len(requests) = 1
    /\ Len(requests) = 3 =>
          /\ ~Truthy(requests[1].data)
          /\ requests[2].endpoint = "versions"
          /\ Truthy(requests[2].data)

C2_Witness == Done /\ Len(requests) = 3 /\ Truthy(model_data)

------------------------------------------------------------------------------
(* C3 *)

\* C3: an identifier that is no integer literal gets the input-error
\* message and nothing else: no request is issued and no table is rendered.
C3_NonIntegerIdentifier ==
    ~IsIntegerLiteral(identifier) =>
        /\ requests = <<>>
        /\ ~AnyTable
        /\ raised = "none"
        /\ Done => out = <<Feedback("error", "invalid_id")>>

C3_Witness ==
    /\ Done
    /\ identifier = <<"a", "b", "c">>
    /\ Emitted("error", "invalid_id")

------------------------------------------------------------------------------
(* C4 *)

\* C4: an identifier that is not the literal of a positive integer
\* (non-numeric, zero or negative) gets an error message and no table,
\* whatever the endpoints answer.
C4_NonPositiveIdentifierRejected ==
    ~IsPositiveLiteral(identifier) =>
        /\ ~AnyTable
        /\ Done /\ raised = "none" => AnyError

------------------------------------------------------------------------------
(* C5 *)

\* C5 as stated: whenever the fallback path succeeds with a version body
\* whose modelId is P, the record has parent_id = P and no versions, and the
\* "is a variant of" warning is emitted.
C5_FallbackMarksVersion ==
    FallbackSucceeded =>
        /\ raised = "none"
        /\ model_details.parent_id = version_data["modelId"]
        /\ model_details.versions = <<>>
        /\ Emitted("warning", "variant")

\* C5, amended: whenever the fallback path succeeds and the merged body has
\* a `model` key, the record has no versions and its parent_id is the merged
\* body's modelId (P, unless the parent body has a modelId of its own), and
\* the "is a variant of" warning is emitted exactly when that parent_id is
\* truthy (not zero).
C5_FallbackVersionShape ==
    FallbackSucceeded /\ "model" \in DOMAIN model_data =>
        /\ raised = "none"
        /\ model_details.versions = <<>>
        /\ model_details.parent_id =
              IF "modelId" \in DOMAIN requests[3].data
              THEN requests[3].data["modelId"]
              ELSE version_data["modelId"]
        /\ Emitted("warning", "variant") <=> TruthyScalar(model_details.parent_id)

C5_Witness ==
    /\ FallbackSucceeded
    /\ "model" \in DOMAIN version_data
    /\ model_details.parent_id = PyInt(999)
    /\ model_details.versions = <<>>
    /\ "modelVersions" \in DOMAIN model_data
    /\ Emitted("warning", "variant")

------------------------------------------------------------------------------
(* C6 *)

\* C6 as stated: for an input with a `model` key, the record has no
\* versions and has parent_id and parent_name both set (non-null).
C6_VersionShapeHasParent ==
    Printed /\ "model" \in DOMAIN model_data =>
        /\ model_details.versions = <<>>
        /\ model_details.parent_id # None
        /\ model_details.parent_name # None

\* C6, amended: for an input with a `model` key, the record has no
\* versions, its parent_id is the input's top-level modelId (null when the
\* key is absent) and its parent_name is the nested model object's name
\* (null when absent); and no record has both a non-empty versions list and
\* a parent_id.
C6_VersionShapeRecord ==
    /\ Printed /\ "model" \in DOMAIN model_data =>
          /\ model_details.versions = <<>>
          /\ model_details.parent_id =
                IF "modelId" \in DOMAIN model_data
                THEN model_data["modelId"] ELSE None
          /\ model_details.parent_name =
                IF "name" \in DOMAIN model_data["model"]
                THEN model_data["model"]["name"] ELSE None
    /\ Printed /\ model_details.versions # <<>> =>
          model_details.parent_id = None

C6_Witness ==
    /\ Printed
    /\ "model" \in DOMAIN model_data
    /\ "modelVersions" \in DOMAIN model_data
    /\ model_details.versions = <<>>
    /\ model_details.parent_id = PyInt(999)
    /\ model_details.parent_name = PyStr("parent")

------------------------------------------------------------------------------
(* C7 *)

\* The summary C7 describes for a modelVersions entry.
C7_Expected(entry) ==
    [id |-> IF "id" \in DOMAIN entry THEN entry["id"] ELSE PyStr(""),
     name |-> IF "name" \in DOMAIN entry THEN entry["name"] ELSE PyStr(""),
     base_model |->
        IF "baseModel" \in DOMAIN entry THEN entry["baseModel"] ELSE PyStr(""),
     download_url |->
        IF "files" \in DOMAIN entry /\ "downloadUrl" \in DOMAIN entry["files"][1]
        THEN entry["files"][1]["downloadUrl"] ELSE PyStr(""),
     images |->
        IF "images" \in DOMAIN entry /\ "url" \in DOMAIN entry["images"][1]
        THEN entry["images"][1]["url"] ELSE PyStr(""),
     file |->
        IF "files" \in DOMAIN entry /\ "name" \in DOMAIN entry["files"][1]
        THEN entry["files"][1]["name"] ELSE PyStr("")]

\* C7: for every model-shaped input with N modelVersions entries,
\* process_model_data returns N summaries in the same order, the i-th one
\* built from the first file and the first image of the i-th entry, with
\* empty strings where the entry has no files or images list.
C7_OneSummaryPerVersion ==
    Done /\ Truthy(model_data) /\ "model" \notin DOMAIN model_data =>
        /\ raised = "none"
        /\ LET mv == Get(model_data, "modelVersions", <<>>)
           IN  /\ Len(model_details.versions) = Len(mv)
               /\ \A i \in 1..Len(mv) :
                     model_details.versions[i] = C7_Expected(mv[i])

------------------------------------------------------------------------------
(* C8 *)

WarningNames == {"variant", "no_images", "no_versions"}

\* The warnings print_model_details emits for a record.
WarningsOf(details) ==
    LET printed == print_model_details(details, FALSE, FALSE)
    IN  {printed[i].what : i \in {k \in 1..Len(printed) : printed[k].kind = "warning"}}

\* The sets of warnings emitted for the records the endpoints' bodies
\* normalize to.
WarningSets ==
    {WarningsOf(process_model_data(d)) :
        d \in {b \in ModelsBodies \cup VersionsBodies :
                 Truthy(b) /\ ~process_model_data_raises(b)}}

\* C8 as stated: each of the three warnings is emitted or not regardless of
\* the other two: whatever a call emits, the same warnings with any one of
\* the three added or left out are emitted for some record too, so that
\* every combination occurs.
C8_WarningsIndependent ==
    Printed =>
        \A w \in WarningNames :
            /\ (WarningsOf(model_details) \cup {w}) \in WarningSets
            /\ (WarningsOf(model_details) \ {w}) \in WarningSets

\* C8, amended: the "is a variant of" and the "No versions available"
\* warnings never occur together (the second requires that there is no
\* parent_id); "No images available" is emitted exactly when the record has
\* no images, with or without either of the other two; so the combinations
\* that occur are the six that do not hold both of the first two.
C8_VariantExcludesNoVersions ==
    /\ Printed =>
          /\ ~(Emitted("warning", "variant") /\ Emitted("warning", "no_versions"))
          /\ Emitted("warning", "no_images") <=> model_details.images = <<>>
          /\ Emitted("warning", "no_versions") <=>
                /\ model_details.versions = <<>>
                /\ ~Emitted("warning", "variant")
    /\ WarningSets =
          {c \in SUBSET WarningNames : ~({"variant", "no_versions"} \subseteq c)}

C8_Witness ==
    /\ Printed
    /\ Emitted("warning", "variant")
    /\ Emitted("warning", "no_images")
    /\ ~Emitted("warning", "no_versions")

------------------------------------------------------------------------------
(* C9 *)

\* C9: when the first models request answers 404 with a non-empty JSON
\* object, that object is normalized and its tables are rendered, with no
\* request to the versions endpoint and no "No model found"; the versions
\* endpoint is requested only when the first request failed or gave an empty
\* body.
C9_NotFoundBodyPassedThrough ==
    /\ Len(requests) >= 1 /\ requests[1].status = 404 /\ Truthy(requests[1].data) =>
          /\ Len(requests) = 1
          /\ Done
          /\ raised = "none"
          /\ model_details = process_model_data(requests[1].data)
          /\ AnyTable
          /\ ~Emitted("error", "not_found")
    /\ Len(requests) >= 2 => ~Truthy(requests[1].data)

------------------------------------------------------------------------------
(* C10 *)

\* C10: on the fallback path the merged body's keys are the union of the
\* version body's and the parent body's keys, a key of both carries the
\* parent body's value and any other key its only value; when the parent
\* lookup yields nothing, the version body is dropped and there is no data.
C10_ParentWinsMerge ==
    Done /\ Len(requests) = 3 =>
        LET parent == requests[3].data
        IN  IF Truthy(parent)
            THEN /\ DOMAIN model_data = DOMAIN version_data \cup DOMAIN parent
                 /\ \A k \in DOMAIN model_data :
                       model_data[k] = IF k \in DOMAIN parent
                                       THEN parent[k] ELSE version_data[k]
            ELSE /\ model_data = None
                 /\ model_details = EmptyDict
                 /\ Emitted("error", "not_found")

C10_Witness ==
    /\ Done
    /\ Len(requests) = 3
    /\ Truthy(requests[3].data)
    /\ \E k \in DOMAIN version_data \cap DOMAIN requests[3].data :
          version_data[k] # requests[3].data[k]
    /\ \E k \in DOMAIN version_data : k \notin DOMAIN requests[3].data

====
